---- MODULE Spec2Model ----
(***************************************************************************)
(* Dashboard analytics of server/controllers/dashboard_controller.js:      *)
(* the bucket planner (buildBuckets and its UTC date helpers) and the two  *)
(* request handlers that aggregate product trends and visitor logs into    *)
(* the planned buckets.                                                    *)
(*                                                                         *)
(* An instant (a JavaScript Date) is a record [day, ms]: the number of     *)
(* days since 1970-01-01 UTC and the millisecond within that day, compared *)
(* lexicographically.  A query-string value is a tagged record: undefined, *)
(* a string (a sequence of one-character strings) or an array.             *)
(***************************************************************************)
EXTENDS Integers, Sequences, FiniteSets, TLC

\* ------------------------------------------------------------------ bounds

\* First day (days since 1970-01-01) and length of the window explicit
\* startDate/endDate pairs are drawn from: 19772 is 2024-02-19.
WindowFirst == 19772
WindowDays == 22
\* First day and number of days the defaulted end date / "now" is drawn from:
\* 19723 is 2024-01-01.
YearFirst == 19723
YearDays == 366
\* Largest number of rows in a table of the data store.
MaxRows == 3
\* Largest value of prisma.product.count().
MaxProducts == 1

\* ------------------------------------------------- ECMAScript Date (UTC)

msPerDayLast == 86399999

null == [type |-> "null"]
undefined == [type |-> "undefined"]
NaN == [type |-> "number", isNaN |-> TRUE, value |-> 0]
Num(n) == [type |-> "number", isNaN |-> FALSE, value |-> n]

DaysInYear(y) ==
    IF y % 4 # 0 THEN 365
    ELSE IF y % 100 # 0 THEN 366
    ELSE IF y % 400 # 0 THEN 365 ELSE 366

DayFromYear(y) ==
    365 * (y - 1970) + ((y - 1969) \div 4) - ((y - 1901) \div 100)
        + ((y - 1601) \div 400)

\* Year, month index (0..11) and day of the month (1..31) of a day number in
\* the proleptic Gregorian calendar: days are counted from 0000-03-01 in eras
\* of 400 years, era being the era, doe the day of the era, yoe the year of
\* the era, doy the day of the year that starts in March, mp its month.
CivilOfMp(y, doy, mp) ==
    [year |-> y + (IF mp >= 10 THEN 1 ELSE 0),
     month |-> IF mp < 10 THEN mp + 2 ELSE mp - 10,
     date |-> doy - ((153 * mp + 2) \div 5) + 1]
CivilOfDoy(y, doy) == CivilOfMp(y, doy, (5 * doy + 2) \div 153)
CivilOfYoe(era, doe, yoe) ==
    CivilOfDoy(yoe + era * 400, doe - (365 * yoe + (yoe \div 4) - (yoe \div 100)))
CivilOfDoe(era, doe) ==
    CivilOfYoe(era, doe,
        (doe - (doe \div 1460) + (doe \div 36524) - (doe \div 146096)) \div 365)
Civil(day) == CivilOfDoe((day + 719468) \div 146097, (day + 719468) % 146097)

\* A Date: its time value (day, ms) with the calendar fields its getters return.
DateOf(day, ms, civil) ==
    [type |-> "Date", day |-> day, ms |-> ms,
     year |-> civil.year, month |-> civil.month, date |-> civil.date]
Instant(day, ms) == DateOf(day, ms, Civil(day))

\* d1 <= d2, d1 >= d2 on Dates (comparison of time values).
Lte(a, b) == a.day < b.day \/ (a.day = b.day /\ a.ms <= b.ms)
Gte(a, b) == Lte(b, a)

getUTCFullYear(d) == d.year
getUTCMonth(d) == d.month
getUTCDate(d) == d.date

\* getUTCDay: 0 = Sunday .. 6 = Saturday (1970-01-01 was a Thursday).
getUTCDay(d) == (d.day + 4) % 7

\* Days of a common year before each month.
MonthStarts == <<0, 31, 59, 90, 120, 151, 181, 212, 243, 273, 304, 334>>

\* MakeDay: month and date may lie outside their ranges and carry over.
MakeDayOf(ym, mn, date) ==
    DayFromYear(ym) + MonthStarts[mn + 1]
        + (IF mn >= 2 /\ DaysInYear(ym) = 366 THEN 1 ELSE 0) + date - 1
MakeDay(year, month, date) == MakeDayOf(year + (month \div 12), month % 12, date)

\* Date.UTC(y, m, d, h, mi, s, ms) for a time of day given in milliseconds;
\* a year 0..99 means 1900 + year.
DateUTC(y, m, d, ms) ==
    Instant(MakeDay(IF y \in 0..99 THEN 1900 + y ELSE y, m, d), ms)

\* d.setUTCDate(date), d.setUTCMonth(month): the time of day is kept.
setUTCDate(d, date) ==
    Instant(MakeDay(getUTCFullYear(d), getUTCMonth(d), date), d.ms)
setUTCMonth(d, month) ==
    Instant(MakeDay(getUTCFullYear(d), month, getUTCDate(d)), d.ms)


\* ------------------------------------------------------ strings and numbers

Str(chars) == [type |-> "string", chars |-> chars]

Digits == <<"0", "1", "2", "3", "4", "5", "6", "7", "8", "9">>
IsDigit(c) == \E i \in 1..10 : Digits[i] = c
DigitValue(c) == (CHOOSE i \in 1..10 : Digits[i] = c) - 1

\* String(n) for an integer n >= 0.
RECURSIVE String(_)
String(n) ==
    IF n < 10 THEN <<Digits[n + 1]>>
    ELSE String(n \div 10) \o <<Digits[(n % 10) + 1]>>

\* s.padStart(2, '0')
padStart2(s) == IF Len(s) < 2 THEN <<"0">> \o s ELSE s

\* s.split('-'): the fields between the separators (one more than separators).
RECURSIVE SplitFrom(_, _, _)
SplitFrom(s, i, cur) ==
    IF i > Len(s) THEN <<cur>>
    ELSE IF s[i] = "-" THEN <<cur>> \o SplitFrom(s, i + 1, <<>>)
    ELSE SplitFrom(s, i + 1, Append(cur, s[i]))
split(s) == SplitFrom(s, 1, <<>>)

\* Number(field) over the alphabet of digits, 'T' and ':' (a '-' never
\* reaches it): the empty string is 0, a string of digits its decimal value,
\* anything else NaN.
RECURSIVE DecimalValue(_, _)
DecimalValue(s, acc) ==
    IF s = <<>> THEN acc
    ELSE DecimalValue(Tail(s), 10 * acc + DigitValue(Head(s)))
Number(s) ==
    IF \A i \in 1..Len(s) : IsDigit(s[i]) THEN Num(DecimalValue(s, 0)) ELSE NaN

\* !v for a number or NaN.
Falsy(v) == v.isNaN \/ v.value = 0

\* ------------------------------------------------------- helper functions

TypeError == [type |-> "TypeError"]

toUTCDateOnly(dateStr) ==
    IF dateStr.type = "undefined" THEN null
    ELSE IF dateStr.type = "array" THEN TypeError   \* dateStr.split is not a function
    ELSE IF dateStr.chars = <<>> THEN null
    ELSE LET fields == split(dateStr.chars)
             y == Number(fields[1])
             m == IF Len(fields) >= 2 THEN Number(fields[2]) ELSE NaN
             d == IF Len(fields) >= 3 THEN Number(fields[3]) ELSE NaN
         IN  IF Falsy(y) \/ Falsy(m) \/ Falsy(d) THEN null
             ELSE DateUTC(y.value, m.value - 1, d.value, 0)

fmt(d) ==
    String(getUTCFullYear(d)) \o <<"-">> \o padStart2(String(getUTCMonth(d) + 1))
        \o <<"-">> \o padStart2(String(getUTCDate(d)))

startOfDayUTC(d) == DateUTC(getUTCFullYear(d), getUTCMonth(d), getUTCDate(d), 0)

\* Mutant: the day ends at 23:59:59.000.
endOfDayUTC_NoMillis(d) ==
    DateUTC(getUTCFullYear(d), getUTCMonth(d), getUTCDate(d), msPerDayLast - 999)

endOfDayUTC(d) ==
    DateUTC(getUTCFullYear(d), getUTCMonth(d), getUTCDate(d), msPerDayLast)

\* d.setUTCDate(d.getUTCDate() + days)
shiftUTCDate(d, days) == setUTCDate(d, getUTCDate(d) + days)

\* Mutant: Sunday is day 0 of its week, not day 7.
startOfISOWeekUTC_SundayFirst(d) ==
    startOfDayUTC(
        shiftUTCDate(DateUTC(getUTCFullYear(d), getUTCMonth(d), getUTCDate(d), 0),
                     0 - (getUTCDay(d) - 1)))

startOfISOWeekUTC(d) ==
    startOfDayUTC(
        shiftUTCDate(DateUTC(getUTCFullYear(d), getUTCMonth(d), getUTCDate(d), 0),
                     0 - ((IF getUTCDay(d) = 0 THEN 7 ELSE getUTCDay(d)) - 1)))

endOfISOWeekUTC(d) == endOfDayUTC(shiftUTCDate(startOfISOWeekUTC(d), 6))

startOfMonthUTC(d) == DateUTC(getUTCFullYear(d), getUTCMonth(d), 1, 0)

endOfMonthUTC(d) ==
    endOfDayUTC(DateUTC(getUTCFullYear(d), getUTCMonth(d) + 1, 0, 0))

addDaysUTC(d, days) == shiftUTCDate(d, days)

\* d.setUTCMonth(d.getUTCMonth() + months)
shiftUTCMonth(d, months) == setUTCMonth(d, getUTCMonth(d) + months)

addMonthsUTC(d, months) ==
    shiftUTCMonth(DateUTC(getUTCFullYear(d), getUTCMonth(d), getUTCDate(d), 0), months)


\* ----------------------------------------------------------- buildBuckets

Day == Str(<<"d", "a", "y">>)
Week == Str(<<"w", "e", "e", "k">>)
Month == Str(<<"m", "o", "n", "t", "h">>)

\* Mutant: the default day window reaches 7 days back.
defaultStart_SevenBack(rangeEnd, bucket) ==
    IF bucket = Month THEN startOfMonthUTC(shiftUTCMonth(rangeEnd, 0 - 5))
    ELSE IF bucket = Week THEN startOfISOWeekUTC(shiftUTCDate(rangeEnd, 0 - 7 * 11))
    ELSE startOfDayUTC(shiftUTCDate(rangeEnd, 0 - 7))

\* The default of a missing startDate, counted back from rangeEnd.
defaultStart(rangeEnd, bucket) ==
    IF bucket = Month THEN startOfMonthUTC(shiftUTCMonth(rangeEnd, 0 - 5))
    ELSE IF bucket = Week THEN startOfISOWeekUTC(shiftUTCDate(rangeEnd, 0 - 7 * 11))
    ELSE startOfDayUTC(shiftUTCDate(rangeEnd, 0 - 6))

\* Normalize the boundaries to the bucket edges.
normalizeStart(rangeStart, bucket) ==
    IF bucket = Month THEN startOfMonthUTC(rangeStart)
    ELSE IF bucket = Week THEN startOfISOWeekUTC(rangeStart)
    ELSE startOfDayUTC(rangeStart)

normalizeEnd(rangeEnd, bucket) ==
    IF bucket = Month THEN endOfMonthUTC(rangeEnd)
    ELSE IF bucket = Week THEN endOfISOWeekUTC(rangeEnd)
    ELSE endOfDayUTC(rangeEnd)

makeBucket(d, bucket) ==
    IF bucket = Month THEN [start |-> startOfMonthUTC(d), end |-> endOfMonthUTC(d)]
    ELSE IF bucket = Week
        THEN [start |-> startOfISOWeekUTC(d), end |-> endOfISOWeekUTC(d)]
    ELSE [start |-> startOfDayUTC(d), end |-> endOfDayUTC(d)]

advance(d, bucket) ==
    IF bucket = Month THEN addMonthsUTC(d, 1)
    ELSE IF bucket = Week THEN addDaysUTC(d, 7)
    ELSE addDaysUTC(d, 1)

\* while (cursor <= rangeEnd) { buckets.push(makeBucket(cursor)); cursor = advance(cursor) }
RECURSIVE enumerate(_, _, _)
enumerate(cursor, rangeEnd, bucket) ==
    IF Lte(cursor, rangeEnd)
        THEN <<makeBucket(cursor, bucket)>> \o enumerate(advance(cursor, bucket), rangeEnd, bucket)
    ELSE <<>>

\* buildBuckets from the normalized boundaries on: the enumeration.
bucketsBetween(rangeStart, rangeEnd, bucket) ==
    [rangeStart |-> rangeStart, rangeEnd |-> rangeEnd,
     buckets |-> enumerate(rangeStart, rangeEnd, bucket)]

\* buildBuckets from the defaulted end on: the default of the start, then
\* the normalization of both.
bucketsUpTo(parsedStart, rangeEnd, bucket) ==
    bucketsBetween(
        normalizeStart(IF parsedStart = null THEN defaultStart(rangeEnd, bucket)
                       ELSE parsedStart, bucket),
        normalizeEnd(rangeEnd, bucket), bucket)

\* buildBuckets from the parsed parameters on.
bucketsOfParsed(parsedStart, parsedEnd, bucket, now) ==
    IF parsedStart = TypeError \/ parsedEnd = TypeError THEN TypeError
    ELSE bucketsUpTo(parsedStart,
                     IF parsedEnd = null THEN startOfDayUTC(now) ELSE parsedEnd, bucket)

\* buildBuckets({startDate, endDate, bucket}) at the time `now`: the record
\* returned, or the TypeError thrown by toUTCDateOnly.
buildBuckets(startDate, endDate, bucket, now) ==
    bucketsOfParsed(toUTCDateOnly(startDate), toUTCDateOnly(endDate), bucket, now)

\* ------------------------------------------------------------- data store

\* findMany({where: {key: {gte, lte}}, orderBy: {key: 'asc'}}): the rows of
\* the table inside [gte, lte] in ascending order of key; rows with equal
\* keys come in any order.
findMany(table, key, gte, lte) ==
    LET hit == {r \in table : Gte(r[key], gte) /\ Lte(r[key], lte)}
        n == Cardinality(hit)
    IN  {s \in [1..n -> hit] :
            /\ \A i, j \in 1..n : i # j => s[i] # s[j]
            /\ \A i \in 1..(n - 1) : Lte(s[i][key], s[i + 1][key])}

\* ---------------------------------------------------------------- handlers

RECURSIVE SumOf(_, _)
\* items.reduce((sum, it) => sum + (it[field] || 0), 0)
SumOf(items, field) ==
    IF items = <<>> THEN 0
    ELSE LET v == Head(items)[field]
         IN  (IF v = 0 THEN 0 ELSE v) + SumOf(Tail(items), field)

\* Mutant: the end of the bucket is excluded.
inBucket_EndExclusive(date, b) == Gte(date, b.start) /\ ~Gte(date, b.end)

inBucket(date, b) == Gte(date, b.start) /\ Lte(date, b.end)

\* Mutant: the first item is taken.
lastItem_First(items) == items[1]

lastItem(items) == items[Len(items)]

\* buckets.map(({start, end}) => {...}) of the products handler.
trendOfBucket(trends, b) ==
    LET items == SelectSeq(trends, LAMBDA t : inBucket(t.date, b))
    IN  [startDate |-> fmt(b.start),
         endDate |-> fmt(b.end),
         totalProducts |-> IF Len(items) # 0 THEN Num(lastItem(items).totalProducts)
                           ELSE null,
         productsAdded |-> SumOf(items, "productsAdded"),
         productsRemoved |-> SumOf(items, "productsRemoved")]

\* Mutant: a missing total becomes 0 whatever was seen before.
RECURSIVE forwardFill_ZeroOnly(_, _, _)
forwardFill_ZeroOnly(trendByBucket, i, lastTotal) ==
    IF i > Len(trendByBucket) THEN trendByBucket
    ELSE IF trendByBucket[i].totalProducts = null
        THEN forwardFill_ZeroOnly([trendByBucket EXCEPT ![i].totalProducts = Num(0)],
                                  i + 1, lastTotal)
    ELSE forwardFill_ZeroOnly(trendByBucket, i + 1, lastTotal)

\* The forward-fill loop from index i on, lastTotal being the last total seen.
RECURSIVE forwardFill(_, _, _)
forwardFill(trendByBucket, i, lastTotal) ==
    IF i > Len(trendByBucket) THEN trendByBucket
    ELSE IF trendByBucket[i].totalProducts = null
        THEN forwardFill(
                [trendByBucket EXCEPT ![i].totalProducts =
                    IF lastTotal = null THEN Num(0) ELSE lastTotal],
                i + 1, lastTotal)
    ELSE forwardFill(trendByBucket, i + 1, trendByBucket[i].totalProducts)

trendByBucket(trends, buckets) ==
    forwardFill([i \in 1..Len(buckets) |-> trendOfBucket(trends, buckets[i])], 1, null)

\* Mutant: a log at the very start of the bucket is not counted.
RECURSIVE CountIn_StartExclusive(_, _)
CountIn_StartExclusive(logs, b) ==
    IF logs = <<>> THEN 0
    ELSE (IF inBucket(Head(logs).visitedAt, b) /\ Head(logs).visitedAt # b.start
          THEN 1 ELSE 0) + CountIn_StartExclusive(Tail(logs), b)

RECURSIVE CountIn(_, _)
\* logs.reduce((acc, l) => acc + (inside ? 1 : 0), 0)
CountIn(logs, b) ==
    IF logs = <<>> THEN 0
    ELSE (IF inBucket(Head(logs).visitedAt, b) THEN 1 ELSE 0) + CountIn(Tail(logs), b)

\* buckets.map(({start, end}) => {...}) of the visitors handler.
visitorsOfBucket(logs, b) ==
    [startDate |-> fmt(b.start), endDate |-> fmt(b.end), visitors |-> CountIn(logs, b)]

visitorsByBucket(logs, buckets) ==
    [i \in 1..Len(buckets) |-> visitorsOfBucket(logs, buckets[i])]

InternalServerError ==
    [status |-> 500, body |-> [error |-> "Internal server error"]]


\* ------------------------------------------------------------------ state

VARIABLES
    productTrend,   \* the product_trends table: a set of rows
    visitorLog,     \* the visitor_logs table: a set of rows
    query,          \* req.query: [startDate, endDate, bucket]
    now,            \* the value of new Date() while the request is handled
    pc,             \* where the handler of the request stands
    route,          \* the handler the router dispatched to
    plan,           \* what buildBuckets returned
    fetched,        \* what findMany resolved with
    calls,          \* the queries issued to the data store, with their outcomes
    responses       \* the responses sent, in order

vars == <<productTrend, visitorLog, query, now, pc, route, plan, fetched, calls,
          responses>>

none == [type |-> "none"]

\* A query handed to the data store, and the settling of the one awaited.
Pending(op) == [op |-> op, outcome |-> "pending"]
Settle(cs, outcome) == [cs EXCEPT ![Len(cs)].outcome = outcome]

\* const { startDate, endDate, bucket = 'day' } = req.query
bucketOf(q) == IF q.bucket = undefined THEN Day ELSE q.bucket

\* GET /products up to the first await: buildBuckets, then findMany is issued;
\* an exception is caught and answered with status 500.
ProductsRequest ==
    /\ pc = "idle"
    /\ route' = "products"
    /\ plan' = buildBuckets(query.startDate, query.endDate, bucketOf(query), now)
    /\ IF plan' = TypeError
        THEN /\ pc' = "done"
             /\ responses' = Append(responses, InternalServerError)
             /\ calls' = calls
        ELSE /\ pc' = "awaitTrends"
             /\ responses' = responses
             /\ calls' = Append(calls, Pending("productTrend.findMany"))
    /\ UNCHANGED <<productTrend, visitorLog, query, now, fetched>>

\* productTrend.findMany resolves: the trend is built and forward-filled, then
\* product.count is issued.
TrendsResolve ==
    /\ pc = "awaitTrends"
    /\ \E trends \in findMany(productTrend, "date", plan.rangeStart, plan.rangeEnd) :
            fetched' = [rows |-> trends,
                        trend |-> trendByBucket(trends, plan.buckets)]
    /\ calls' = Append(Settle(calls, "resolved"), Pending("product.count"))
    /\ pc' = "awaitCount"
    /\ UNCHANGED <<productTrend, visitorLog, query, now, route, plan, responses>>

\* productTrend.findMany rejects.
TrendsReject ==
    /\ pc = "awaitTrends"
    /\ calls' = Settle(calls, "rejected")
    /\ responses' = Append(responses, InternalServerError)
    /\ pc' = "done"
    /\ UNCHANGED <<productTrend, visitorLog, query, now, route, plan, fetched>>

\* product.count resolves with the number of products.
CountResolve ==
    /\ pc = "awaitCount"
    /\ \E currentTotal \in 0..MaxProducts :
            responses' = Append(responses,
                [status |-> 200,
                 body |-> [currentTotal |-> currentTotal, trend |-> fetched.trend]])
    /\ calls' = Settle(calls, "resolved")
    /\ pc' = "done"
    /\ UNCHANGED <<productTrend, visitorLog, query, now, route, plan, fetched>>

\* product.count rejects.
CountReject ==
    /\ pc = "awaitCount"
    /\ calls' = Settle(calls, "rejected")
    /\ responses' = Append(responses, InternalServerError)
    /\ pc' = "done"
    /\ UNCHANGED <<productTrend, visitorLog, query, now, route, plan, fetched>>

\* GET /visitors up to its await.
VisitorsRequest ==
    /\ pc = "idle"
    /\ route' = "visitors"
    /\ plan' = buildBuckets(query.startDate, query.endDate, bucketOf(query), now)
    /\ IF plan' = TypeError
        THEN /\ pc' = "done"
             /\ responses' = Append(responses, InternalServerError)
             /\ calls' = calls
        ELSE /\ pc' = "awaitLogs"
             /\ responses' = responses
             /\ calls' = Append(calls, Pending("visitorLog.findMany"))
    /\ UNCHANGED <<productTrend, visitorLog, query, now, fetched>>

\* visitorLog.findMany resolves: the counts are built and the response sent.
LogsResolve ==
    /\ pc = "awaitLogs"
    /\ \E logs \in findMany(visitorLog, "visitedAt", plan.rangeStart, plan.rangeEnd) :
            /\ fetched' = [rows |-> logs]
            /\ responses' = Append(responses,
                    [status |-> 200,
                     body |-> [totalVisitors |-> Len(logs),
                               visitorsByBucket |-> visitorsByBucket(logs, plan.buckets)]])
    /\ calls' = Settle(calls, "resolved")
    /\ pc' = "done"
    /\ UNCHANGED <<productTrend, visitorLog, query, now, route, plan>>

\* visitorLog.findMany rejects.
LogsReject ==
    /\ pc = "awaitLogs"
    /\ calls' = Settle(calls, "rejected")
    /\ responses' = Append(responses, InternalServerError)
    /\ pc' = "done"
    /\ UNCHANGED <<productTrend, visitorLog, query, now, route, plan, fetched>>

\* --------------------------------------------------- requests and stores

\* The query string of a date, as a client writes it.
DateString(d) == Str(fmt(d))

WindowStrings == {DateString(Instant(WindowFirst + i, 0)) : i \in 0..(WindowDays - 1)}
YearStrings == {DateString(Instant(YearFirst + i, 0)) : i \in 0..(YearDays - 1)}

\* Values of the bucket parameter: missing, the three granularities, another word.
BucketValues == {undefined, Day, Week, Month, Str(<<"y", "e", "a", "r">>)}

\* Values of a date parameter that are not YYYY-MM-DD calendar dates.
MalformedValues ==
    { Str(<<"2", "0", "2", "4", "-", "0", "2", "-", "3", "0">>),
      Str(<<"2", "0", "2", "4", "-", "1", "3", "-", "0", "1">>),
      Str(<<"2", "0", "2", "4", "-", "0", "0", "-", "1", "0">>),
      Str(<<"2", "0", "2", "4", "-", "0", "2">>),
      Str(<<"2", "0", "2", "4", "-", "0", "2", "-", "2", "0", "-", "0", "5">>),
      Str(<<"2", "0", "2", "4", "-", "0", "2", "-", "2", "0", "T", "1", "0", ":", "0", "0">>),
      Str(<<"2", "0", "2", "4", "-", "-", "2", "0">>),
      Str(<<>>),
      [type |-> "array",
       items |-> <<DateString(Instant(WindowFirst, 0)), DateString(Instant(WindowFirst + 1, 0))>>] }

\* Times at which rows of the store are dated, around the second week of the window.
RowInstants ==
    << Instant(WindowFirst + 6, msPerDayLast),
       Instant(WindowFirst + 7, 0),
       Instant(WindowFirst + 8, 43200000),
       Instant(WindowFirst + 9, msPerDayLast),
       Instant(WindowFirst + 11, 0) >>

\* totalProducts, productsAdded, productsRemoved of a row.
RowValues ==
    << [totalProducts |-> 0, productsAdded |-> 1, productsRemoved |-> 2],
       [totalProducts |-> 4, productsAdded |-> 2, productsRemoved |-> 0] >>

RowKinds == (1..Len(RowInstants)) \X (1..Len(RowValues))

\* The stores of up to MaxRows rows, one per multiset of row kinds.
KindOrder(k) == (k[1] - 1) * Len(RowValues) + k[2]
Stores ==
    UNION { {s \in [1..n -> RowKinds] :
                \A i \in 1..(n - 1) : KindOrder(s[i]) <= KindOrder(s[i + 1])}
            : n \in 0..MaxRows }

SampleStore == <<<<1, 2>>, <<3, 1>>, <<3, 2>>>>

TrendRows(store) ==
    { [id |-> i, date |-> RowInstants[store[i][1]],
       totalProducts |-> RowValues[store[i][2]].totalProducts,
       productsAdded |-> RowValues[store[i][2]].productsAdded,
       productsRemoved |-> RowValues[store[i][2]].productsRemoved]
      : i \in 1..Len(store) }

LogRows(store) ==
    { [id |-> i, visitedAt |-> RowInstants[store[i][1]]] : i \in 1..Len(store) }

Request(startDate, endDate, bucket) ==
    [startDate |-> startDate, endDate |-> endDate, bucket |-> bucket]

SampleNow == Instant(WindowFirst + 10, 5)

Granularities == {Day, Week, Month}

\* Explicit ranges over the window, against the sample store.
ExplicitScenarios ==
    { [query |-> Request(s, e, b), now |-> SampleNow, store |-> SampleStore]
      : s \in WindowStrings, e \in WindowStrings, b \in Granularities }

\* Defaulted boundaries: both missing at every "now" of the year, a missing
\* start before every end of the year, a missing end.
DefaultScenarios ==
    { [query |-> Request(undefined, undefined, b), now |-> Instant(YearFirst + i, ms),
       store |-> SampleStore]
      : b \in {undefined, Week, Month}, i \in 0..(YearDays - 1), ms \in {0, msPerDayLast} }
    \cup
    { [query |-> Request(undefined, e, Month), now |-> SampleNow, store |-> SampleStore]
      : e \in YearStrings }
    \cup
    { [query |-> Request(undefined, e, b), now |-> SampleNow, store |-> SampleStore]
      : e \in WindowStrings, b \in BucketValues }
    \cup
    { [query |-> Request(s, undefined, b), now |-> SampleNow, store |-> SampleStore]
      : s \in WindowStrings, b \in BucketValues }

\* A few ranges around the rows, against every store.
StoreScenarios ==
    { [query |-> q, now |-> SampleNow, store |-> st]
      : q \in { Request(DateString(Instant(WindowFirst + 7, 0)),
                        DateString(Instant(WindowFirst + 10, 0)), undefined),
                Request(DateString(Instant(WindowFirst + 5, 0)),
                        DateString(Instant(WindowFirst + 9, 0)), Day),
                Request(DateString(Instant(WindowFirst, 0)),
                        DateString(Instant(WindowFirst + 14, 0)), Week),
                Request(DateString(Instant(WindowFirst + 8, 0)),
                        DateString(Instant(WindowFirst + 12, 0)), Month) },
        st \in Stores }

\* Date parameters that are not calendar dates.
MalformedScenarios ==
    { [query |-> Request(s, e, b), now |-> SampleNow, store |-> SampleStore]
      : s \in MalformedValues \cup {undefined},
        e \in {undefined, DateString(Instant(WindowFirst + 12, 0)),
               Str(<<"2", "0", "2", "4", "-", "0", "2", "-", "3", "1">>)},
        b \in {undefined, Month} }

Scenarios ==
    ExplicitScenarios \cup DefaultScenarios \cup StoreScenarios \cup MalformedScenarios

Init ==
    /\ \E sc \in Scenarios :
        /\ query = sc.query
        /\ now = sc.now
        /\ productTrend = TrendRows(sc.store)
        /\ visitorLog = LogRows(sc.store)
    /\ pc = "idle"
    /\ route = "none"
    /\ plan = none
    /\ fetched = none
    /\ calls = <<>>
    /\ responses = <<>>

Next ==
    \/ ProductsRequest
    \/ TrendsResolve
    \/ TrendsReject
    \/ CountResolve
    \/ CountReject
    \/ VisitorsRequest
    \/ LogsResolve
    \/ LogsReject

Spec == Init /\ [][Next]_vars

\* ----------------------------------------------------------------- claims

\* A literal YYYY-MM-DD calendar date, read by position.
LiteralYear(c) ==
    1000 * DigitValue(c[1]) + 100 * DigitValue(c[2]) + 10 * DigitValue(c[3])
        + DigitValue(c[4])
LiteralMonth(c) == 10 * DigitValue(c[6]) + DigitValue(c[7])
LiteralDay(c) == 10 * DigitValue(c[9]) + DigitValue(c[10])
LengthOfMonth(y, m) ==
    IF m = 2 THEN (IF (y % 4 = 0 /\ y % 100 # 0) \/ y % 400 = 0 THEN 29 ELSE 28)
    ELSE IF m \in {4, 6, 9, 11} THEN 30 ELSE 31
IsCalendarDate(v) ==
    /\ v.type = "string"
    /\ Len(v.chars) = 10
    /\ \A i \in 1..10 : IF i \in {5, 8} THEN v.chars[i] = "-" ELSE IsDigit(v.chars[i])
    /\ LiteralMonth(v.chars) \in 1..12
    /\ LiteralDay(v.chars) \in 1..LengthOfMonth(LiteralYear(v.chars), LiteralMonth(v.chars))
\* The order of two calendar dates.
DateKey(v) ==
    10000 * LiteralYear(v.chars) + 100 * LiteralMonth(v.chars) + LiteralDay(v.chars)
\* A Date is on the calendar day a literal date names.
OnDay(d, v) ==
    /\ d.year = LiteralYear(v.chars)
    /\ d.month + 1 = LiteralMonth(v.chars)
    /\ d.date = LiteralDay(v.chars)

\* buildBuckets has returned.
Planned == plan # none /\ plan # TypeError
\* Both boundaries are calendar dates or omitted, and the start is not after
\* the end: a given start not after the given end or, the end omitted, not
\* after today; the default of an omitted start never is.
ValidRange ==
    /\ Planned
    /\ query.startDate = undefined \/ IsCalendarDate(query.startDate)
    /\ query.endDate = undefined \/ IsCalendarDate(query.endDate)
    /\ query.startDate # undefined =>
            DateKey(query.startDate) <=
                (IF query.endDate = undefined
                 THEN 10000 * now.year + 100 * (now.month + 1) + now.date
                 ELSE DateKey(query.endDate))

\* The instant one millisecond after d, as a time value.
NextMs(d) ==
    IF d.ms = msPerDayLast THEN <<d.day + 1, 0>> ELSE <<d.day, d.ms + 1>>
TimeValue(d) == <<d.day, d.ms>>

\* C1: for every granularity and every pair of valid calendar dates
\* startDate <= endDate (and for defaulted boundaries as well), the bucket
\* list of buildBuckets is non-empty, ordered and contiguous (each bucket
\* ends one millisecond before the next starts), its first bucket starts at
\* rangeStart and its last bucket ends at rangeEnd.
C1_BucketsCoverRange ==
    ValidRange =>
        /\ Len(plan.buckets) >= 1
        /\ TimeValue(plan.buckets[1].start) = TimeValue(plan.rangeStart)
        /\ TimeValue(plan.buckets[Len(plan.buckets)].end) = TimeValue(plan.rangeEnd)
        /\ \A i \in 1..Len(plan.buckets) :
                Lte(plan.buckets[i].start, plan.buckets[i].end)
        /\ \A i \in 1..(Len(plan.buckets) - 1) :
                NextMs(plan.buckets[i].end) = TimeValue(plan.buckets[i + 1].start)

\* A range over the leap February and the March after it has been planned.
C1_Witness ==
    /\ ValidRange
    /\ IsCalendarDate(query.startDate) /\ IsCalendarDate(query.endDate)
    /\ bucketOf(query) = Month
    /\ Len(plan.buckets) = 2
    /\ plan.buckets[1].end.date = 29

\* C3: with startDate and endDate both omitted and granularity day, the
\* buckets are the 7 single days that end with today's UTC date, each from
\* 00:00:00.000 to 23:59:59.999.
C3_SevenDaysEndingToday ==
    (Planned /\ query.startDate = undefined /\ query.endDate = undefined
        /\ bucketOf(query) = Day)
    =>  /\ Len(plan.buckets) = 7
        /\ \A i \in 1..Len(plan.buckets) :
                /\ TimeValue(plan.buckets[i].start) = <<now.day - 7 + i, 0>>
                /\ TimeValue(plan.buckets[i].end) = <<now.day - 7 + i, msPerDayLast>>

\* The default week has been planned late on a day early in a month.
C3_Witness ==
    /\ Planned /\ query.startDate = undefined /\ query.endDate = undefined
    /\ bucketOf(query) = Day
    /\ now.ms = msPerDayLast
    /\ now.date = 2
    /\ Len(plan.buckets) = 7

\* C8: for every granularity and valid startDate and endDate, rangeStart is
\* the latest aligned period start (midnight of the day, of the ISO week's
\* Monday, of the first of the month) at or before startDate, rangeEnd the
\* earliest aligned period end (23:59:59.999 of the day, of the ISO week's
\* Sunday, of the last day of the month) at or after endDate, and snapping
\* either again changes nothing.
StartAligned(d, v, bucket) ==
    /\ d.ms = 0
    /\ IF bucket = Month THEN d.date = 1 /\ d.year = LiteralYear(v.chars)
                              /\ d.month + 1 = LiteralMonth(v.chars)
       ELSE IF bucket = Week
            THEN /\ getUTCDay(d) = 1
                 /\ \E k \in 0..6 : OnDay(Instant(d.day + k, 0), v)
       ELSE OnDay(d, v)
EndAligned(d, v, bucket) ==
    /\ d.ms = msPerDayLast
    /\ IF bucket = Month THEN /\ Instant(d.day + 1, 0).date = 1
                              /\ d.year = LiteralYear(v.chars)
                              /\ d.month + 1 = LiteralMonth(v.chars)
       ELSE IF bucket = Week
            THEN /\ getUTCDay(d) = 0
                 /\ \E k \in 0..6 : OnDay(Instant(d.day - k, 0), v)
       ELSE OnDay(d, v)
C8_SnappedOutward ==
    (Planned /\ IsCalendarDate(query.startDate) /\ IsCalendarDate(query.endDate))
    =>  /\ StartAligned(plan.rangeStart, query.startDate, bucketOf(query))
        /\ EndAligned(plan.rangeEnd, query.endDate, bucketOf(query))
        /\ normalizeStart(plan.rangeStart, bucketOf(query)) = plan.rangeStart
        /\ normalizeEnd(plan.rangeEnd, bucketOf(query)) = plan.rangeEnd

\* A week range that starts on a Sunday and ends on a Monday has been planned.
C8_Witness ==
    /\ Planned /\ IsCalendarDate(query.startDate) /\ IsCalendarDate(query.endDate)
    /\ bucketOf(query) = Week
    /\ OnDay(Instant(plan.rangeStart.day + 6, 0), query.startDate)
    /\ OnDay(Instant(plan.rangeEnd.day - 6, 0), query.endDate)

\* C2: with month granularity and startDate omitted, for every effective end
\* date buildBuckets returns exactly 6 calendar-month buckets: the month of
\* the effective end date and the 5 calendar months before it.
MonthIndex(d) == 12 * d.year + d.month
EffectiveEnd == IF query.endDate = undefined THEN now ELSE toUTCDateOnly(query.endDate)
C2_SixCalendarMonths ==
    (Planned /\ bucketOf(query) = Month /\ query.startDate = undefined
        /\ (query.endDate = undefined \/ IsCalendarDate(query.endDate)))
    =>  /\ Len(plan.buckets) = 6
        /\ \A i \in 1..Len(plan.buckets) :
                /\ MonthIndex(plan.buckets[i].start) = MonthIndex(EffectiveEnd) - 6 + i
                /\ MonthIndex(plan.buckets[i].end) = MonthIndex(EffectiveEnd) - 6 + i

\* C7: toUTCDateOnly returns a date only for a literal YYYY-MM-DD calendar
\* date; for every other value of startDate or endDate buildBuckets plans as
\* if the parameter had been omitted.
OmittedUnlessDate(v) == IF IsCalendarDate(v) THEN v ELSE undefined
C7_MalformedIsOmitted ==
    plan # none =>
        plan = buildBuckets(OmittedUnlessDate(query.startDate),
                            OmittedUnlessDate(query.endDate), bucketOf(query), now)

\* C9: exactly one response is sent per request: status 500 with the fixed
\* body when the record fetch or the product count fails, the failed query
\* not being retried, and the full success payload otherwise.
SomeQueryFailed == \E i \in 1..Len(calls) : calls[i].outcome = "rejected"
IsSuccessPayload(r) ==
    /\ r.status = 200
    /\ DOMAIN r.body = (IF route = "products" THEN {"currentTotal", "trend"}
                        ELSE {"totalVisitors", "visitorsByBucket"})
C9_FailureIffQueryFailed ==
    pc = "done" =>
        /\ Len(responses) = 1
        /\ \A i, j \in 1..Len(calls) : calls[i].op = calls[j].op => i = j
        /\ IF SomeQueryFailed THEN responses[1] = InternalServerError
           ELSE IsSuccessPayload(responses[1])

\* The success response of each handler, once sent.
ProductsAnswered == pc = "done" /\ route = "products" /\ responses[1].status = 200
VisitorsAnswered == pc = "done" /\ route = "visitors" /\ responses[1].status = 200
Trend == responses[1].body.trend

\* The fetched rows (by position) that lie in bucket i of the plan.
Before(a, b) == a.day < b.day \/ (a.day = b.day /\ a.ms < b.ms)
Inside(d, b) == ~Before(d, b.start) /\ ~Before(b.end, d)
TrendRowsIn(i) ==
    {k \in 1..Len(fetched.rows) : Inside(fetched.rows[k].date, plan.buckets[i])}
LogRowsIn(i) ==
    {k \in 1..Len(fetched.rows) : Inside(fetched.rows[k].visitedAt, plan.buckets[i])}
Largest(S) == CHOOSE k \in S : \A j \in S : j <= k

RECURSIVE Total(_, _)
Total(seq, field) ==
    IF seq = <<>> THEN 0 ELSE Head(seq)[field] + Total(Tail(seq), field)

\* C4: in the trend of a products response no totalProducts is null; a
\* bucket with no record has the totalProducts of the nearest earlier bucket
\* of the response that has a record, and 0 when there is none.
C4_ForwardFilled ==
    ProductsAnswered =>
        \A i \in 1..Len(Trend) :
            /\ Trend[i].totalProducts.type = "number"
            /\ ~Trend[i].totalProducts.isNaN
            /\ TrendRowsIn(i) = {} =>
                    IF \E j \in 1..(i - 1) : TrendRowsIn(j) # {}
                    THEN Trend[i].totalProducts =
                            Trend[Largest({j \in 1..(i - 1) : TrendRowsIn(j) # {}})].totalProducts
                    ELSE Trend[i].totalProducts.value = 0

\* A trend whose first bucket is empty (0 although an earlier row is stored),
\* whose second has a row and whose third is filled from it.
C4_Witness ==
    /\ ProductsAnswered
    /\ Len(Trend) >= 3
    /\ TrendRowsIn(1) = {} /\ Trend[1].totalProducts.value = 0
    /\ TrendRowsIn(2) # {} /\ Trend[2].totalProducts.value = 4
    /\ TrendRowsIn(3) = {} /\ Trend[3].totalProducts.value = 4
    /\ \E r \in productTrend : ~Lte(plan.rangeStart, r.date)

\* C5: each fetched trend record is counted in exactly one bucket: the sums
\* of productsAdded and of productsRemoved over the buckets of the response
\* equal the sums over the fetched records.
C5_SumsPreserved ==
    ProductsAnswered =>
        /\ \A k \in 1..Len(fetched.rows) :
                Cardinality({i \in 1..Len(Trend) : k \in TrendRowsIn(i)}) = 1
        /\ Total(Trend, "productsAdded") = Total(fetched.rows, "productsAdded")
        /\ Total(Trend, "productsRemoved") = Total(fetched.rows, "productsRemoved")

\* Three rows, the first at the last millisecond of one bucket and the next at
\* the first millisecond of the following one, have been summed.
C5_Witness ==
    /\ ProductsAnswered
    /\ Len(fetched.rows) = 3
    /\ fetched.rows[1].date.ms = msPerDayLast
    /\ fetched.rows[2].date.ms = 0
    /\ \E i \in 1..(Len(Trend) - 1) : 1 \in TrendRowsIn(i) /\ 2 \in TrendRowsIn(i + 1)
    /\ Total(Trend, "productsAdded") >= 4

\* C6: in a visitors response totalVisitors, the number of logs fetched,
\* equals the sum of visitors over the buckets, and with no log fetched
\* every bucket has visitors = 0 and totalVisitors = 0.
C6_TotalIsBucketSum ==
    VisitorsAnswered =>
        /\ responses[1].body.totalVisitors = Len(fetched.rows)
        /\ responses[1].body.totalVisitors
                = Total(responses[1].body.visitorsByBucket, "visitors")
        /\ \A i \in 1..Len(plan.buckets) :
                responses[1].body.visitorsByBucket[i].visitors = Cardinality(LogRowsIn(i))

\* Three logs over two buckets, one at the first millisecond of its bucket.
C6_Witness ==
    /\ VisitorsAnswered
    /\ responses[1].body.totalVisitors = 3
    /\ \E i \in 1..Len(plan.buckets) :
            /\ responses[1].body.visitorsByBucket[i].visitors = 2
            /\ \E k \in LogRowsIn(i) : fetched.rows[k].visitedAt = plan.buckets[i].start

\* C10: a bucket of the products response that holds fetched records has
\* the totalProducts of the record with the latest date in it, the last one
\* fetched, also when that value is 0.
C10_LastRecordTotal ==
    ProductsAnswered =>
        \A i \in 1..Len(Trend) :
            TrendRowsIn(i) # {} =>
                /\ \A k \in TrendRowsIn(i) :
                        Lte(fetched.rows[k].date, fetched.rows[Largest(TrendRowsIn(i))].date)
                /\ Trend[i].totalProducts
                        = Num(fetched.rows[Largest(TrendRowsIn(i))].totalProducts)

\* A bucket whose earlier record has 4 products and whose latest has 0.
C10_Witness ==
    /\ ProductsAnswered
    /\ \E i \in 1..Len(Trend) :
            /\ Cardinality(TrendRowsIn(i)) = 2
            /\ \E k \in TrendRowsIn(i) :
                    /\ fetched.rows[k].totalProducts = 4
                    /\ ~Lte(fetched.rows[Largest(TrendRowsIn(i))].date, fetched.rows[k].date)
            /\ Trend[i].totalProducts = Num(0)
====
